---- MODULE Spec2Model ----
(***************************************************************************)
(* A model of multipg2csv (src/main.go): one goroutine per connection URL  *)
(* connects, runs the query and writes the rows to a temporary csv file;   *)
(* main waits for all of them on a WaitGroup, then an archiving goroutine  *)
(* copies the files of the complete connections into a zip; a bubbletea    *)
(* program shows the status and ends the process through finalExit.        *)
(*                                                                         *)
(* Library behaviour the code relies on and the model takes from the Go    *)
(* standard library, pgx and bubbletea:                                    *)
(*  - rows.Next() returns false at the end of the result AND on an error   *)
(*    (the error is kept in rows.Err(), which main.go never reads);        *)
(*  - csv.Writer buffers its records (bufio) until the buffer is full or   *)
(*    Flush is called; (&csv.Writer{}).Flush() dereferences a nil          *)
(*    *bufio.Writer and panics;                                            *)
(*  - zip.Writer.Create appends an entry (names are not deduplicated);     *)
(*  - io.Copy from a nil *os.File returns an error;                        *)
(*  - a panic in any goroutine and os.Exit end the whole process;          *)
(*  - p.Send on a program that has already quit either returns at once or  *)
(*    blocks forever, depending on the bubbletea version of the build.     *)
(* Time (fetchStart, the rates in the status text) is left out.            *)
(***************************************************************************)
EXTENDS Integers, Sequences, FiniteSets, TLC

\* ------------------------------------------------------------------ bounds
\* number of connection URLs on the command line
NConns == 2
\* most rows a result streams
MaxRows == 2
\* records the csv writer's buffer holds before it writes them through
BufCap == 2

Conns == 1..NConns

\* ------------------------------------------------- connectionState (runes)
stateZero == 0
stateInit == 127916
stateConnecting == 128268
stateConnected == 128268
stateStartQuery == 128269
stateError == 128163
stateFetching == 128221
stateComplete == 127937

\* ------------------------------------------------------------------ inputs
\* a connection URL postgresql://user@host/database; ok: pgx.ParseConfig
\* accepts it
URL(host, user) == [host |-> host, database |-> "x", user |-> user, ok |-> TRUE]

BadURL == [host |-> "?", database |-> "?", user |-> "?", ok |-> FALSE]

Names == <<"a", "b", "c", "d", "e", "f">>

\* the command lines modelled, each a list of NConns different URLs: every
\* URL on its own host; all on one host and database as different users (the
\* derived file names collide); the first URL unparseable
UrlLists ==
  { [i \in Conns |-> URL(Names[i], "u")],
    [i \in Conns |-> URL("a", Names[i])],
    [i \in Conns |-> IF i = 1 THEN BadURL ELSE URL(Names[i], "u")] }

\* the column names of the query's result (the same query on every host)
FieldDescriptions == <<"id", "name">>

\* the values in the rows of the result: row r, column j
Cells ==
  << [kind |-> "nil", val |-> ""], [kind |-> "string", val |-> "v"],
     [kind |-> "bool", val |-> TRUE], [kind |-> "pgtype.Unknown", val |-> "u"] >>

Cell(r, j) == Cells[((r + j) % Len(Cells)) + 1]

\* values of every type the switch of lines 245-274 names, and of some it
\* does not name (see the section on cell rendering for the form of val)
CellDomain ==
  { [kind |-> "nil", val |-> ""],
    [kind |-> "string", val |-> "v"], [kind |-> "string", val |-> ""],
    [kind |-> "net.HardwareAddr", val |-> <<0, 171, 9>>],
    [kind |-> "int32", val |-> -12], [kind |-> "int64", val |-> 1234567],
    [kind |-> "uint32", val |-> 0], [kind |-> "uint64", val |-> 40],
    [kind |-> "int8", val |-> -128], [kind |-> "uint8", val |-> 255],
    [kind |-> "big.Int", val |-> 5],
    [kind |-> "map[string]interface {}", val |-> <<>>],
    [kind |-> "map[string]interface {}",
     val |-> << <<"a", [kind |-> "string", val |-> "v"]>>,
                <<"b", [kind |-> "float64", val |-> <<7, 1>>]>> >>],
    [kind |-> "map[string]interface {}",
     val |-> << <<"a", [kind |-> "float64", val |-> <<0, 0>>]>> >>],
    [kind |-> "pgtype.Numeric", val |-> <<1, 3>>],
    [kind |-> "pgtype.Numeric", val |-> <<-5, 2>>],
    [kind |-> "pgtype.Numeric", val |-> <<0, 0>>],
    [kind |-> "float32", val |-> <<3, 2>>], [kind |-> "float64", val |-> <<-1, 8>>],
    [kind |-> "float64", val |-> <<0, 0>>],
    [kind |-> "time.Time", val |-> "2022-01-02 03:04:05 +0000 UTC"],
    [kind |-> "time.Duration", val |-> "1.5s"],
    [kind |-> "*net.IPNet", val |-> "10.0.0.0/8"],
    [kind |-> "bool", val |-> TRUE], [kind |-> "bool", val |-> FALSE],
    [kind |-> "int16", val |-> 7],
    [kind |-> "pgtype.Unknown", val |-> "u"] }

\* ------------------------------------------------------------------- state
VARIABLES
  conns,        \* m.conns: per connection status, state, pgConnectionURL, pg, tmpFilename
  task,         \* per goroutine: position and locals of connectAndQuery/runQuery
  fs,           \* the temporary files: per connection, whether it exists and its records
  created,      \* how many temporary files a connection has created
  wg,           \* the WaitGroup counter
  mainPc,       \* position of main
  arch,         \* the archiving goroutine: position and loop index
  archive,      \* the output zip: created, entries (name, data, src: the connection), closed
  tea,          \* the bubbletea program: position and its copy of the model flags
  sendOnQuit,   \* what p.Send does once the program has quit: "noop" or "block"
  exit          \* the process: "running", "exit0", "exit1", "panic"

vars == <<conns, task, fs, created, wg, mainPc, arch, archive, tea, sendOnQuit, exit>>

Status(text, n) == [text |-> text, rows |-> n]

Terminal(s) == s = stateComplete \/ s = stateError

\* main, lines 90-112: the connections as constructed (state is left at its
\* zero value), wg.Add(len(m.conns)), one goroutine per connection
Init ==
  /\ \E urls \in UrlLists :
       conns = [i \in Conns |->
                  [status |-> Status("init", 0), state |-> stateZero,
                   pgConnectionURL |-> urls[i], pg |-> FALSE, tmpFilename |-> 0]]
  /\ task = [i \in Conns |->
               [pc |-> "start", rowCount |-> 0, headerWritten |-> FALSE,
                w |-> [valid |-> FALSE, buf |-> <<>>], rows |-> "none",
                vals |-> <<>>]]
  /\ fs = [i \in Conns |-> [exists |-> FALSE, data |-> <<>>]]
  /\ created = [i \in Conns |-> 0]
  /\ wg = NConns
  /\ mainPc = "wait"
  /\ arch = [pc |-> "idle", k |-> 1]
  /\ archive = [created |-> FALSE, entries |-> <<>>, closed |-> FALSE]
  /\ tea = [pc |-> "init", fetchesAllDone |-> FALSE, archiveAllDone |-> FALSE,
            racyView |-> FALSE]
  /\ sendOnQuit \in {"noop", "block"}
  /\ exit = "running"

Running == exit = "running"

\* ------------------------------------------------- connectAndQuery, runQuery
TaskFrame == UNCHANGED <<wg, mainPc, arch, archive, tea, sendOnQuit>>

\* lines 177-178
Connecting(i) ==
  /\ Running /\ task[i].pc = "start"
  /\ conns' = [conns EXCEPT ![i].status = Status("connecting", 0),
                            ![i].state = stateConnecting]
  /\ task' = [task EXCEPT ![i].pc = "connect"]
  /\ UNCHANGED <<fs, created, exit>> /\ TaskFrame

\* ConnectFail without its return: the goroutine goes on into runQuery
ConnectFailNoReturn(i) ==
  /\ Running /\ task[i].pc = "connect"
  /\ conns' = [conns EXCEPT ![i].status = Status("failed", 0),
                            ![i].state = stateError]
  /\ task' = [task EXCEPT ![i].pc = "runQuery"]
  /\ UNCHANGED <<fs, created, exit>> /\ TaskFrame

\* lines 180-186: pgx.Connect fails (bad URL, refused, 15 s timeout)
ConnectFail(i) ==
  /\ Running /\ task[i].pc = "connect"
  /\ conns' = [conns EXCEPT ![i].status = Status("failed", 0),
                            ![i].state = stateError]
  /\ task' = [task EXCEPT ![i].pc = "return"]
  /\ UNCHANGED <<fs, created, exit>> /\ TaskFrame

\* a pgx.Connect that succeeds whatever the URL
ConnectOKAnyURL(i) ==
  /\ Running /\ task[i].pc = "connect"
  /\ conns' = [conns EXCEPT ![i].pg = TRUE,
                            ![i].status = Status("connected", 0),
                            ![i].state = stateConnected]
  /\ task' = [task EXCEPT ![i].pc = "runQuery"]
  /\ UNCHANGED <<fs, created, exit>> /\ TaskFrame

\* lines 180, 187-190: pgx.Connect succeeds (it parses the URL first, with
\* the pgx.ParseConfig that pgConnectionURLtoFilename calls)
ConnectOK(i) ==
  /\ Running /\ task[i].pc = "connect"
  /\ conns[i].pgConnectionURL.ok
  /\ conns' = [conns EXCEPT ![i].pg = TRUE,
                            ![i].status = Status("connected", 0),
                            ![i].state = stateConnected]
  /\ task' = [task EXCEPT ![i].pc = "runQuery"]
  /\ UNCHANGED <<fs, created, exit>> /\ TaskFrame

\* lines 192, 196-199
StartQuery(i) ==
  /\ Running /\ task[i].pc = "runQuery"
  /\ conns' = [conns EXCEPT ![i].status = Status("executing query", 0),
                            ![i].state = stateStartQuery]
  /\ task' = [task EXCEPT ![i].pc = "query", ![i].rowCount = 0]
  /\ UNCHANGED <<fs, created, exit>> /\ TaskFrame

\* lines 201-207: c.pg.Query returns an error
QueryFail(i) ==
  /\ Running /\ task[i].pc = "query"
  /\ conns' = [conns EXCEPT ![i].status = Status("failed to run query", 0),
                            ![i].state = stateError]
  /\ task' = [task EXCEPT ![i].pc = "return"]
  /\ UNCHANGED <<fs, created, exit>> /\ TaskFrame

\* lines 201, 209-210: the query is running; w is a csv.Writer without a buffer
QueryOK(i) ==
  /\ Running /\ task[i].pc = "query"
  /\ task' = [task EXCEPT ![i].pc = "next", ![i].rows = "open",
                          ![i].w = [valid |-> FALSE, buf |-> <<>>],
                          ![i].headerWritten = FALSE]
  /\ UNCHANGED <<conns, fs, created, exit>> /\ TaskFrame

\* ------------------------------------------------------------ csv.Writer
Header == [kind |-> "header", fields |-> FieldDescriptions]

\* csv.NewWriter(f): a writer with an empty buffer (line 224)
NewWriter == [valid |-> TRUE, buf |-> <<>>]

\* w.Write(rec) on file contents data: the record is buffered; a full buffer
\* is written through to the file first (lines 233, 285)
WriterWrite(w, data, rec) ==
  IF Len(w.buf) >= BufCap
    THEN [w |-> [w EXCEPT !.buf = <<rec>>], data |-> data \o w.buf]
    ELSE [w |-> [w EXCEPT !.buf = Append(w.buf, rec)], data |-> data]

\* a Flush that writes nothing
WriterFlushNone(w, data) == data

\* w.Flush(): the buffered records reach the file (line 287)
WriterFlush(w, data) == data \o w.buf

\* ---------------------------------------------------------- cell rendering
\* A cell is [kind, val]: kind is the Go type of the value rows.Values()
\* returned ("nil" for a nil interface), val its value:
\*   string, and the kinds rendered through their String() method
\*     (time.Time, time.Duration, *net.IPNet): the text
\*   net.HardwareAddr: the bytes
\*   the integer kinds: the number
\*   map[string]interface{}: the pairs <<key, cell>>, in key order
\*   pgtype.Numeric, float32, float64: <<numerator, denominator>>, or
\*     <<0, 0>> for NaN
\*   bool: TRUE or FALSE
\*   any other type: the text %v gives
Digits == <<"0", "1", "2", "3", "4", "5", "6", "7", "8", "9">>

HexDigits == Digits \o <<"a", "b", "c", "d", "e", "f">>

RECURSIVE NatToStr(_)
\* a natural number in base 10
NatToStr(n) ==
  IF n < 10 THEN Digits[n + 1] ELSE NatToStr(n \div 10) \o Digits[(n % 10) + 1]

\* fmt's %d of an integer
IntToStr(n) == IF n < 0 THEN "-" \o NatToStr(-n) ELSE NatToStr(n)

RECURSIVE Pow10(_)
Pow10(k) == IF k = 0 THEN 1 ELSE 10 * Pow10(k - 1)

RECURSIVE ZeroPad(_, _)
\* text t filled with zeros on the left to k characters
ZeroPad(t, k) == IF Len(t) >= k THEN t ELSE ZeroPad("0" \o t, k)

\* big.Rat.FloatString(prec) of num/den (den > 0), and fmt's %f of a float
\* that is exactly num/den: prec digits after the point, the last one
\* rounded to nearest, halves away from zero
FixedPoint(num, den, prec) ==
  LET a  == IF num < 0 THEN -num ELSE num
      p  == Pow10(prec)
      r0 == (a % den) * p
      up == den <= 2 * (r0 % den)
      r1 == (r0 \div den) + (IF up THEN 1 ELSE 0)
      q  == (a \div den) + (IF r1 >= p THEN 1 ELSE 0)
      r  == IF r1 >= p THEN r1 - p ELSE r1
  IN  (IF num < 0 THEN "-" ELSE "") \o NatToStr(q) \o "." \o ZeroPad(NatToStr(r), prec)

RECURSIVE HardwareAddrString(_)
\* net.HardwareAddr.String(): the bytes in hex, separated by colons
HardwareAddrString(b) ==
  IF b = <<>> THEN ""
  ELSE LET h == HexDigits[(b[1] \div 16) + 1] \o HexDigits[(b[1] % 16) + 1]
       IN  IF Len(b) = 1 THEN h ELSE h \o ":" \o HardwareAddrString(Tail(b))

\* json.Marshal of a value inside a map: a string, a number, or a float that
\* is NaN, which json cannot encode
JSONValueOK(c) == ~(c.kind = "float64" /\ c.val = <<0, 0>>)

JSONValue(c) ==
  CASE c.kind = "string" -> "\"" \o c.val \o "\""
    [] c.kind = "float64" -> IntToStr(c.val[1] \div c.val[2])
    [] OTHER -> "null"

RECURSIVE JSONPairs(_)
JSONPairs(m) ==
  IF m = <<>> THEN ""
  ELSE LET kv == "\"" \o m[1][1] \o "\":" \o JSONValue(m[1][2])
       IN  IF Len(m) = 1 THEN kv ELSE kv \o "," \o JSONPairs(Tail(m))

\* json.Marshal(map): whether it succeeds, and the text
MarshalOK(m) == \A n \in 1..Len(m) : JSONValueOK(m[n][2])

Marshal(m) == "{" \o JSONPairs(m) \o "}"

\* the types the integer arm of the switch names (line 249)
IntArm == {"int32", "int64", "uint32", "uint64", "int8", "uint8"}

\* fmt's %v of a value the switch does not name
DefaultString(cell) ==
  IF cell.kind \in {"int16", "uint16", "int"} THEN IntToStr(cell.val) ELSE cell.val

\* the arm of the type switch of lines 245-274 that a cell takes
Arm(cell) ==
  CASE cell.kind \in {"string", "net.HardwareAddr"} -> "string"
    [] cell.kind \in IntArm \cup {"big.Int"} -> "int"
    [] cell.kind = "map[string]interface {}" -> "map"
    [] cell.kind = "pgtype.Numeric" -> "numeric"
    [] cell.kind \in {"float32", "float64"} -> "float"
    [] cell.kind \in {"time.Time", "time.Duration", "*net.IPNet"} -> "stringer"
    [] cell.kind = "bool" -> "bool"
    [] cell.kind = "nil" -> "nil"
    [] OTHER -> "default"

\* the switch with its nil arm missing: a nil falls into the default arm
RenderNoNilArm(cell) ==
  IF cell.kind = "nil" THEN "(<nil>): <nil>"
  ELSE IF cell.kind = "string" THEN cell.val
  ELSE IF cell.kind = "bool" THEN (IF cell.val THEN "true" ELSE "false")
  ELSE "(" \o cell.kind \o "): " \o DefaultString(cell)

\* lines 243-275: the type switch that renders one cell. A big.Int held by
\* value has no Format method, so %d prints its fields; a Numeric that is
\* NaN is not assigned and leaves the zero big.Rat.
Render(cell) ==
  CASE Arm(cell) = "string" ->
         IF cell.kind = "string" THEN cell.val ELSE HardwareAddrString(cell.val)
    [] Arm(cell) = "int" ->
         IF cell.kind = "big.Int"
           THEN "{%!d(bool=" \o (IF cell.val < 0 THEN "true" ELSE "false") \o ") ["
                \o (IF cell.val = 0 THEN "" ELSE NatToStr(IF cell.val < 0 THEN -cell.val ELSE cell.val))
                \o "]}"
           ELSE IntToStr(cell.val)
    [] Arm(cell) = "map" ->
         IF MarshalOK(cell.val) THEN Marshal(cell.val) ELSE "bad data"
    [] Arm(cell) = "numeric" ->
         IF cell.val[2] = 0 THEN FixedPoint(0, 1, 5)
         ELSE FixedPoint(cell.val[1], cell.val[2], 5)
    [] Arm(cell) = "float" ->
         IF cell.val[2] = 0 THEN "NaN" ELSE FixedPoint(cell.val[1], cell.val[2], 6)
    [] Arm(cell) = "stringer" -> cell.val
    [] Arm(cell) = "bool" -> IF cell.val THEN "true" ELSE "false"
    [] Arm(cell) = "nil" -> "[null]"
    [] OTHER -> "(" \o cell.kind \o "): " \o DefaultString(cell)

\* lines 243-275: rowData, one rendered text per value
RowData(vals) ==
  [kind |-> "row", fields |-> [j \in 1..Len(vals) |-> Render(vals[j])]]

\* what rows.Values() returns for row r: one value per field description
Values(r) == [j \in 1..Len(FieldDescriptions) |-> Cell(r, j)]

\* the locals of a goroutine whose runQuery has returned (rowCount and rows
\* keep their last values)
Returned(t) ==
  [t EXCEPT !.pc = "return", !.headerWritten = FALSE,
            !.w = [valid |-> FALSE, buf |-> <<>>], !.vals = <<>>]

\* lines 213-235: on the first row the temporary file is created and the
\* header is written to a new csv writer; later rows keep what there is
AfterHeader(i) ==
  IF task[i].headerWritten
    THEN [w |-> task[i].w, file |-> fs[i], tmpFilename |-> conns[i].tmpFilename,
          created |-> created[i]]
    ELSE LET r == WriterWrite(NewWriter, <<>>, Header)
         IN  [w |-> r.w, file |-> [exists |-> TRUE, data |-> r.data],
              tmpFilename |-> i, created |-> created[i] + 1]

\* lines 211-286: rows.Next() is true, rows.Values() returns vals, the row
\* is rendered and written
FetchRowOf(i, vals) ==
  /\ Running /\ task[i].pc = "next" /\ task[i].rowCount < MaxRows
  /\ LET h == AfterHeader(i)
         n == task[i].rowCount + 1
         r == WriterWrite(h.w, h.file.data, RowData(vals))
     IN  /\ conns' = [conns EXCEPT ![i].tmpFilename = h.tmpFilename,
                                   ![i].status = Status("fetch", n),
                                   ![i].state = stateFetching]
         /\ task' = [task EXCEPT ![i].rowCount = n, ![i].headerWritten = TRUE,
                                 ![i].w = r.w, ![i].vals = vals]
         /\ fs' = [fs EXCEPT ![i] = [exists |-> TRUE, data |-> r.data]]
         /\ created' = [created EXCEPT ![i] = h.created]
  /\ UNCHANGED exit /\ TaskFrame

\* the row the result holds at this place
FetchRow(i) == FetchRowOf(i, Values(task[i].rowCount + 1))

\* a row whose cells all hold one value of the cell domain
FetchAny(i) ==
  \E v \in CellDomain : FetchRowOf(i, [j \in 1..Len(FieldDescriptions) |-> v])

\* lines 211-241: rows.Next() is true and rows.Values() returns an error
\* (after the header block of a first row); the buffered records are lost
ValuesFail(i) ==
  /\ Running /\ task[i].pc = "next" /\ task[i].rowCount < MaxRows
  /\ LET h == AfterHeader(i)
     IN  /\ conns' = [conns EXCEPT ![i].tmpFilename = h.tmpFilename,
                                   ![i].status = Status("failed to get row values", 0),
                                   ![i].state = stateError]
         /\ task' = [task EXCEPT ![i] = Returned([@ EXCEPT !.rows = "valuesErr",
                                                            !.rowCount = @ + 1])]
         /\ fs' = [fs EXCEPT ![i] = h.file]
         /\ created' = [created EXCEPT ![i] = h.created]
  /\ UNCHANGED exit /\ TaskFrame

\* lines 211-217: on the first row os.CreateTemp fails; the state is set first
CreateTempFail(i) ==
  /\ Running /\ task[i].pc = "next" /\ task[i].rowCount < MaxRows
  /\ ~task[i].headerWritten
  /\ conns' = [conns EXCEPT ![i].state = stateError]
  /\ task' = [task EXCEPT ![i].pc = "l218", ![i].rowCount = @ + 1]
  /\ UNCHANGED <<fs, created, exit>> /\ TaskFrame

\* lines 218-219: then the status text, and runQuery returns
CreateTempFailStatus(i) ==
  /\ Running /\ task[i].pc = "l218"
  /\ conns' = [conns EXCEPT ![i].status = Status("could not open tmp file", 0)]
  /\ task' = [task EXCEPT ![i] = Returned(@)]
  /\ UNCHANGED <<fs, created, exit>> /\ TaskFrame

\* lines 211, 287-288: rows.Next() is false (how = "err": because of an error,
\* which stays unread in rows.Err(); "eof": the result is exhausted);
\* w.Flush(), then the state is set to complete.
\* Flush on the writer of line 209 (no row was read) is a nil dereference.
EndOfRows(i, how) ==
  /\ Running /\ task[i].pc = "next"
  /\ IF task[i].w.valid
       THEN /\ fs' = [fs EXCEPT ![i].data = WriterFlush(task[i].w, @)]
            /\ conns' = [conns EXCEPT ![i].state = stateComplete]
            /\ task' = [task EXCEPT ![i].pc = "l289", ![i].rows = how,
                                    ![i].w = [valid |-> TRUE, buf |-> <<>>]]
            /\ UNCHANGED exit
       ELSE /\ exit' = "panic"
            /\ task' = [task EXCEPT ![i].pc = "panic", ![i].rows = how]
            /\ UNCHANGED <<fs, conns>>
  /\ UNCHANGED created /\ TaskFrame

RowsExhausted(i) == EndOfRows(i, "eof")

RowsNextErr(i) == EndOfRows(i, "err")

\* line 289: the final status text, and runQuery returns
CompleteStatus(i) ==
  /\ Running /\ task[i].pc = "l289"
  /\ conns' = [conns EXCEPT ![i].status = Status("fetched", task[i].rowCount)]
  /\ task' = [task EXCEPT ![i] = Returned(@)]
  /\ UNCHANGED <<fs, created, exit>> /\ TaskFrame

\* lines 108-110: connectAndQuery has returned; wg.Done()
Done(i) ==
  /\ Running /\ task[i].pc = "return"
  /\ wg' = wg - 1
  /\ task' = [task EXCEPT ![i].pc = "done"]
  /\ UNCHANGED <<conns, fs, created, mainPc, arch, archive, tea, sendOnQuit, exit>>

TaskStep(i) ==
  \/ Connecting(i) \/ ConnectFail(i) \/ ConnectOK(i)
  \/ StartQuery(i) \/ QueryFail(i) \/ QueryOK(i)
  \/ FetchRow(i) \/ ValuesFail(i) \/ CreateTempFail(i) \/ CreateTempFailStatus(i)
  \/ RowsExhausted(i) \/ RowsNextErr(i) \/ CompleteStatus(i) \/ Done(i)

\* ------------------------------------------------------- bubbletea program
\* model.Update, lines 317-334: the program's record after a message (a quit
\* key returns tea.Quit, which ends the event loop)
Update(m, msg) ==
  CASE msg.type = "RefreshDisplay" -> m
    [] msg.type = "modelUpdate" ->
         [m EXCEPT !.archiveAllDone = msg.archiveFinished,
                   !.fetchesAllDone = msg.fetchesFinishes]
    [] msg.type = "KeyMsg" ->
         IF msg.key \in {"ctrl+c", "q", "esc"} THEN [m EXCEPT !.pc = "quit"] ELSE m
    [] msg.type = "Quit" -> [m EXCEPT !.pc = "quit"]

\* an updateModel that fills the two fields the other way round
updateModelSwapped(fetches, archived) ==
  [type |-> "modelUpdate", fetchesFinishes |-> archived, archiveFinished |-> fetches]

\* updateModel, lines 305-311
updateModel(fetches, archived) ==
  [type |-> "modelUpdate", fetchesFinishes |-> fetches, archiveFinished |-> archived]

\* p.Send(msg) can return: the event loop takes the message, or the program
\* has quit and this build's Send gives up
CanSend ==
  \/ tea.pc = "running"
  \/ tea.pc \in {"quit", "done"} /\ sendOnQuit = "noop"

\* the program after p.Send(msg)
Sent(msg) == IF tea.pc = "running" THEN Update(tea, msg) ELSE tea

\* lines 114-117: the goroutine calls p.Start(), the event loop runs
TeaStart ==
  /\ Running /\ tea.pc = "init"
  /\ tea' = [tea EXCEPT !.pc = "running"]
  /\ UNCHANGED <<conns, task, fs, created, wg, mainPc, arch, archive, sendOnQuit, exit>>

\* lines 117-120: p.Start() returns an error at start-up; os.Exit(1)
TeaStartFail ==
  /\ Running /\ tea.pc = "init"
  /\ exit' = "exit1"
  /\ UNCHANGED <<conns, task, fs, created, wg, mainPc, arch, archive, tea, sendOnQuit>>

\* lines 294-298, 319-320: a RefreshDisplay tick; Update leaves the model as it is
Tick ==
  /\ Running /\ tea.pc = "running"
  /\ tea' = Update(tea, [type |-> "RefreshDisplay"])
  /\ UNCHANGED <<conns, task, fs, created, wg, mainPc, arch, archive, sendOnQuit, exit>>

\* lines 324-331: the user presses a key
KeyPress(key) ==
  /\ Running /\ tea.pc = "running"
  /\ tea' = Update(tea, [type |-> "KeyMsg", key |-> key])
  /\ UNCHANGED <<conns, task, fs, created, wg, mainPc, arch, archive, sendOnQuit, exit>>

\* connection i's goroutine has assignments to c.state and c.status ahead of
\* it, and nothing orders them with what the event loop does
Writing(i) == task[i].pc \notin {"return", "done"}

\* model.View, lines 336-354: the event loop renders a frame, reading
\* m.conns[i].state and m.conns[i].status of every connection through the
\* shared pointers, without a lock. racyView records that a frame was read
\* from a connection whose goroutine was still writing these fields.
View ==
  /\ Running /\ tea.pc = "running"
  /\ tea' = [tea EXCEPT !.racyView = @ \/ \E i \in Conns : Writing(i)]
  /\ UNCHANGED <<conns, task, fs, created, wg, mainPc, arch, archive, sendOnQuit, exit>>

\* -------------------------------------------------------------------- main
\* a WaitGroup set up for one goroutine too few
JoinOpenEarly == wg <= 1

\* wg.Wait() returns when the counter is zero
JoinOpen == wg = 0

\* lines 126-127
Wait ==
  /\ Running /\ mainPc = "wait"
  /\ JoinOpen
  /\ mainPc' = "send1"
  /\ UNCHANGED <<conns, task, fs, created, wg, arch, archive, tea, sendOnQuit, exit>>

\* line 128: p.Send(updateModel(true, false))
SendFetchesDone ==
  /\ Running /\ mainPc = "send1"
  /\ CanSend
  /\ tea' = Sent(updateModel(TRUE, FALSE))
  /\ mainPc' = "spawn"
  /\ UNCHANGED <<conns, task, fs, created, wg, arch, archive, sendOnQuit, exit>>

\* the archiving goroutine started without waiting for the WaitGroup
StartArchivingEarly ==
  /\ Running /\ mainPc \in {"wait", "spawn"}
  /\ mainPc' = "recv"
  /\ arch' = [arch EXCEPT !.pc = "create"]
  /\ UNCHANGED <<conns, task, fs, created, wg, archive, tea, sendOnQuit, exit>>

\* lines 132, 160: the archiving goroutine is started
StartArchiving ==
  /\ Running /\ mainPc = "spawn"
  /\ mainPc' = "recv"
  /\ arch' = [arch EXCEPT !.pc = "create"]
  /\ UNCHANGED <<conns, task, fs, created, wg, archive, tea, sendOnQuit, exit>>

\* lines 117-122 and 163-165: p.Start() has returned, finalExit <- true meets
\* <-finalExit, and main returns
FinalExit ==
  /\ Running /\ mainPc = "recv" /\ tea.pc = "quit"
  /\ tea' = [tea EXCEPT !.pc = "done"]
  /\ mainPc' = "exit"
  /\ exit' = "exit0"
  /\ UNCHANGED <<conns, task, fs, created, wg, arch, archive, sendOnQuit>>

\* --------------------------------------------------- the archiving goroutine
\* lines 356-364 (an unparseable URL panics instead)
pgConnectionURLtoFilename(url) == url.host \o "_" \o url.database \o ".csv"

\* lines 134, 140: os.Create and zip.NewWriter
CreateArchive ==
  /\ Running /\ arch.pc = "create"
  /\ archive' = [archive EXCEPT !.created = TRUE]
  /\ arch' = [pc |-> "loop", k |-> 1]
  /\ UNCHANGED <<conns, task, fs, created, wg, mainPc, tea, sendOnQuit, exit>>

\* lines 134-138: os.Create fails; os.Exit(1)
CreateArchiveFail ==
  /\ Running /\ arch.pc = "create"
  /\ exit' = "exit1"
  /\ UNCHANGED <<conns, task, fs, created, wg, mainPc, arch, archive, tea, sendOnQuit>>

\* a loop that archives every connection that has ended, failed ones too
ArchivedTerminal(c) == Terminal(c.state)

\* line 142: which connections the loop archives
Archived(c) == c.state = stateComplete

\* lines 141-144: a connection that is not complete is passed over
SkipEntry ==
  /\ Running /\ arch.pc = "loop" /\ arch.k <= NConns
  /\ ~Archived(conns[arch.k])
  /\ arch' = [arch EXCEPT !.k = @ + 1]
  /\ UNCHANGED <<conns, task, fs, created, wg, mainPc, archive, tea, sendOnQuit, exit>>

\* a zip writer that replaces an entry of the same name
CreateReplacing(entries, entry) ==
  Append(SelectSeq(entries, LAMBDA x : x.name # entry.name), entry)

\* line 145, zipper.Create(name): zip.Writer begins a new entry after those
\* written so far, whatever their names
Create(entries, entry) == Append(entries, entry)

\* lines 145-152: zipper.Create, os.Open, io.Copy, os.Remove. The name of an
\* unparseable URL panics; a file that cannot be opened makes io.Copy fail,
\* which panics after the entry was begun
CopyEntry ==
  /\ Running /\ arch.pc = "loop" /\ arch.k <= NConns
  /\ Archived(conns[arch.k])
  /\ LET c == conns[arch.k]
         f == c.tmpFilename
     IN  IF ~c.pgConnectionURL.ok
           THEN exit' = "panic" /\ UNCHANGED <<archive, fs, arch>>
           ELSE LET name == pgConnectionURLtoFilename(c.pgConnectionURL)
                IN  IF f \in Conns /\ fs[f].exists
                      THEN /\ archive' = [archive EXCEPT !.entries =
                                 Create(@, [name |-> name, data |-> fs[f].data, src |-> arch.k])]
                           /\ fs' = [fs EXCEPT ![f] = [exists |-> FALSE, data |-> <<>>]]
                           /\ arch' = [arch EXCEPT !.k = @ + 1]
                           /\ UNCHANGED exit
                      ELSE /\ archive' = [archive EXCEPT !.entries =
                                 Create(@, [name |-> name, data |-> <<>>, src |-> arch.k])]
                           /\ exit' = "panic"
                           /\ UNCHANGED <<fs, arch>>
  /\ UNCHANGED <<conns, task, created, wg, mainPc, tea, sendOnQuit>>

\* lines 146-150: opening or copying an existing file fails; panic(err)
CopyEntryFail ==
  /\ Running /\ arch.pc = "loop" /\ arch.k <= NConns
  /\ Archived(conns[arch.k])
  /\ conns[arch.k].pgConnectionURL.ok
  /\ archive' = [archive EXCEPT !.entries =
        Create(@, [name |-> pgConnectionURLtoFilename(conns[arch.k].pgConnectionURL),
                   data |-> <<>>, src |-> arch.k])]
  /\ exit' = "panic"
  /\ UNCHANGED <<conns, task, fs, created, wg, mainPc, arch, tea, sendOnQuit>>

\* line 154: zipper.Close() after the loop
CloseArchive ==
  /\ Running /\ arch.pc = "loop" /\ arch.k > NConns
  /\ archive' = [archive EXCEPT !.closed = TRUE]
  /\ arch' = [arch EXCEPT !.pc = "send2"]
  /\ UNCHANGED <<conns, task, fs, created, wg, mainPc, tea, sendOnQuit, exit>>

\* line 157: p.Send(updateModel(true, true))
SendArchiveDone ==
  /\ Running /\ arch.pc = "send2"
  /\ CanSend
  /\ tea' = Sent(updateModel(TRUE, TRUE))
  /\ arch' = [arch EXCEPT !.pc = "sendQuit"]
  /\ UNCHANGED <<conns, task, fs, created, wg, mainPc, archive, sendOnQuit, exit>>

\* lines 158-160: p.Send(tea.Quit()), and the goroutine ends
SendQuit ==
  /\ Running /\ arch.pc = "sendQuit"
  /\ CanSend
  /\ tea' = Sent([type |-> "Quit"])
  /\ arch' = [arch EXCEPT !.pc = "done"]
  /\ UNCHANGED <<conns, task, fs, created, wg, mainPc, archive, sendOnQuit, exit>>

\* ------------------------------------------------------------ specification
Keys == {"q", "x"}

Next ==
  \/ \E i \in Conns : TaskStep(i)
  \/ TeaStart \/ TeaStartFail \/ Tick
  \/ \E key \in Keys : KeyPress(key)
  \/ Wait \/ SendFetchesDone \/ StartArchiving \/ FinalExit
  \/ CreateArchive \/ CreateArchiveFail \/ SkipEntry \/ CopyEntry \/ CopyEntryFail
  \/ CloseArchive \/ SendArchiveDone \/ SendQuit

Spec == Init /\ [][Next]_vars

\* the steps of main, of the archiving goroutine and of p.Start()
MainStep == Wait \/ SendFetchesDone \/ StartArchiving \/ FinalExit

ArchivingStep ==
  \/ CreateArchive \/ CreateArchiveFail \/ SkipEntry \/ CopyEntry \/ CopyEntryFail
  \/ CloseArchive \/ SendArchiveDone \/ SendQuit

\* The Go scheduler lets every goroutine that can take a step take one: the
\* connection goroutines (pgx.Connect returns within the 15 s of line 179,
\* a bounded result ends), main, the archiving goroutine and the start of
\* the bubbletea program. Which step it is (success or error) and what the
\* user types stay free.
FairSpec ==
  /\ Spec
  /\ \A i \in Conns : WF_vars(TaskStep(i))
  /\ WF_vars(MainStep)
  /\ WF_vars(ArchivingStep)
  /\ WF_vars(TeaStart \/ TeaStartFail)

\* the first connection's goroutine alone, its rows drawn from the cell domain
CellNext == FetchAny(1) \/ TaskStep(1)

CellSpec == Init /\ [][CellNext]_vars

\* the program together with the frames its event loop renders
ViewNext == Next \/ View

ViewSpec == Init /\ [][ViewNext]_vars

\* ------------------------------------------------------------------ claims
EntriesOf(i) == {n \in 1..Len(archive.entries) : archive.entries[n].src = i}

\* C1: main passes wg.Wait() only when every connection is in a terminal
\* state (complete or error) and its goroutine has called wg.Done(); every
\* return of connectAndQuery/runQuery has set a terminal state before wg.Done().
C1_JoinCorrectness ==
  /\ mainPc # "wait" =>
       \A i \in Conns : Terminal(conns[i].state) /\ task[i].pc = "done"
  /\ \A i \in Conns : task[i].pc \in {"return", "done"} => Terminal(conns[i].state)

C1_Witness ==
  /\ mainPc = "send1"
  /\ \E i, j \in Conns : conns[i].state = stateComplete /\ conns[j].state = stateError

ArchivingStarted == archive.created \/ archive.entries # <<>> \/ arch.pc # "idle"

\* C2: whenever the archive has been created or an entry has been begun,
\* every connection is terminal and its goroutine has finished; from then on
\* no connection changes its state and no temporary file is written (a file
\* only changes by being removed).
C2_ArchiveAfterFetch ==
  /\ [](ArchivingStarted =>
          \A i \in Conns : Terminal(conns[i].state) /\ task[i].pc = "done")
  /\ [][ArchivingStarted =>
          \A i \in Conns : /\ conns'[i].state = conns[i].state
                           /\ task'[i] = task[i]
                           /\ fs'[i] # fs[i] => ~fs'[i].exists]_vars

C2_Witness ==
  /\ arch.pc = "loop" /\ arch.k > 1
  /\ Len(archive.entries) >= 1
  /\ \E i \in Conns : conns[i].state = stateError

\* C3: when the archiving loop has finished and the zip is closed, the number
\* of entries equals the number of complete connections, and a failed
\* connection has no entry.
C3_ArchiveCompleteness ==
  archive.closed =>
    /\ Len(archive.entries) =
         Cardinality({i \in Conns : conns[i].state = stateComplete})
    /\ \A i \in Conns : conns[i].state = stateError => EntriesOf(i) = {}
    /\ \A i \in Conns : conns[i].state = stateComplete => Cardinality(EntriesOf(i)) = 1

C3_Witness ==
  /\ archive.closed
  /\ Len(archive.entries) >= 1
  /\ \E i \in Conns : conns[i].state = stateError /\ created[i] = 1

\* C4 (as claimed): a connection whose query succeeds and streams no row ends
\* complete, never creates a temporary file, gets no archive entry, and the
\* run goes on normally (no crash).
C4_ZeroRowResult ==
  \A i \in Conns :
    (task[i].rows = "eof" /\ task[i].rowCount = 0) =>
      /\ conns[i].state = stateComplete
      /\ created[i] = 0
      /\ EntriesOf(i) = {}
      /\ exit # "panic"

\* C5: a complete connection that streamed K >= 1 rows created its temporary
\* file once, and before the file is archived it holds K+1 records: the
\* header first and once, then K rows with as many fields as the header; all
\* of them are in the file when the state becomes complete.
C5_KRowResult ==
  \A i \in Conns :
    /\ created[i] <= 1
    /\ created[i] = 1 => task[i].rowCount >= 1
    /\ (conns[i].state = stateComplete /\ EntriesOf(i) = {}) =>
         LET K == conns[i].status.rows
             data == fs[i].data
         IN  /\ K >= 1 /\ K = task[i].rowCount
             /\ created[i] = 1 /\ fs[i].exists
             /\ Len(data) = K + 1
             /\ data[1] = Header
             /\ \A r \in 2..(K + 1) :
                  /\ data[r].kind = "row"
                  /\ Len(data[r].fields) = Len(Header.fields)

C5_Witness ==
  \E i \in Conns :
    /\ conns[i].state = stateComplete /\ task[i].pc = "l289"
    /\ task[i].rowCount = MaxRows
    /\ Len(fs[i].data) = MaxRows + 1

\* C6 (as claimed): a step of connection i's goroutine leaves the fields, the
\* locals and the temporary file of every other connection unchanged, and no
\* connection is kept from its terminal state by another one's failure (here:
\* a goroutine that crashed while a sibling is not yet terminal).
C6_FailureIsolation ==
  /\ [](\A j \in Conns :
          ~Terminal(conns[j].state) =>
            ~\E i \in Conns \ {j} : task[i].pc = "panic")
  /\ [][\A i \in Conns :
          TaskStep(i) =>
            \A j \in Conns \ {i} :
              /\ conns'[j] = conns[j] /\ task'[j] = task[j]
              /\ fs'[j] = fs[j] /\ created'[j] = created[j]]_vars

\* the order of the lifecycle: one step forward, or to error from a state
\* that is not terminal
LifecycleStep(s, t) ==
  \/ <<s, t>> \in { <<stateInit, stateConnecting>>, <<stateConnecting, stateConnected>>,
                    <<stateConnected, stateStartQuery>>, <<stateStartQuery, stateFetching>>,
                    <<stateFetching, stateComplete>> }
  \/ t = stateError /\ ~Terminal(s)

\* C7 (as claimed): every connection starts in state init; its state changes
\* only one step along init, connecting, connected, query started, fetching,
\* complete, or to error from a non-terminal state; the seven states are
\* pairwise different values.
C7_LifecycleOrder ==
  /\ \A i \in Conns : conns[i].state = stateInit
  /\ [][\A i \in Conns :
          conns'[i].state # conns[i].state =>
            LifecycleStep(conns[i].state, conns'[i].state)]_vars
  /\ [](Cardinality({stateInit, stateConnecting, stateConnected, stateStartQuery,
                     stateFetching, stateComplete, stateError}) = 7)

\* C8 (as claimed): once a connection's state is complete or error, no step
\* of any process changes its state or its status text.
C8_TerminalAbsorbing ==
  [][\A i \in Conns :
       Terminal(conns[i].state) =>
         /\ conns'[i].state = conns[i].state
         /\ conns'[i].status = conns[i].status]_vars

\* C8 (amended): once a connection's state is complete or error, no step
\* changes its state; its status text is changed only by the goroutine's own
\* last statement (line 218 or 289), with which runQuery returns, and never
\* after the goroutine has returned.
C8_TerminalStateAbsorbing ==
  [][\A i \in Conns :
       Terminal(conns[i].state) =>
         /\ conns'[i].state = conns[i].state
         /\ conns'[i].status # conns[i].status =>
              task[i].pc \in {"l218", "l289"} /\ task'[i].pc = "return"]_vars

C8_Witness ==
  /\ archive.closed /\ tea.pc = "quit"
  /\ \E i \in Conns : conns[i].state = stateComplete /\ conns[i].status.text = "fetched"
  /\ \E j \in Conns : conns[j].state = stateError

\* C9 (as claimed): after an error while iterating the rows, reported by
\* rows.Next() or by rows.Values(), the connection is never complete and its
\* temporary file never becomes an archive entry.
C9_RowErrorFails ==
  \A i \in Conns :
    task[i].rows \in {"err", "valuesErr"} =>
      conns[i].state # stateComplete /\ EntriesOf(i) = {}

\* C10 (as claimed): main returns (exit status 0) only after the archive holds
\* the entry of every complete connection and is closed, and after the
\* bubbletea program has ended.
C10_ExitOrdering ==
  exit = "exit0" =>
    /\ archive.closed
    /\ \A i \in Conns : conns[i].state = stateComplete => EntriesOf(i) # {}
    /\ tea.pc = "done"

\* the records written for connection i so far, in the file or still buffered
Written(i) == fs[i].data \o task[i].w.buf

\* the types the switch of lines 245-274 names
NamedKinds ==
  {"string", "net.HardwareAddr", "int32", "int64", "uint32", "uint64", "int8",
   "uint8", "big.Int", "map[string]interface {}", "pgtype.Numeric", "float32",
   "float64", "time.Time", "time.Duration", "*net.IPNet", "bool", "nil"}

\* C11: whatever the kinds of the values rows.Values() returned, the row is
\* rendered and written and the loop goes on: the goroutine is at the next
\* rows.Next() (or past the loop, complete), never in error; no row is
\* dropped; the record has one text per value, where a nil is "[null]", a map
\* that cannot be encoded is "bad data", and a value of a type the switch
\* does not name is "(type): value".
C11_RenderTotal ==
  \A i \in Conns :
    task[i].vals # <<>> =>
      LET vals == task[i].vals
          rec  == Written(i)[Len(Written(i))]
      IN  /\ task[i].pc \in {"next", "l289"}
          /\ task[i].pc = "next" => conns[i].state = stateFetching
          /\ conns[i].state # stateError
          /\ Len(Written(i)) = task[i].rowCount + 1
          /\ rec.kind = "row" /\ Len(rec.fields) = Len(vals)
          /\ \A j \in 1..Len(vals) :
               /\ rec.fields[j] \in STRING
               /\ vals[j].kind = "nil" => rec.fields[j] = "[null]"
               /\ (vals[j].kind = "map[string]interface {}" /\ ~MarshalOK(vals[j].val))
                    => rec.fields[j] = "bad data"
               /\ vals[j].kind \notin NamedKinds =>
                    rec.fields[j] = "(" \o vals[j].kind \o "): " \o DefaultString(vals[j])

C11_Witness ==
  /\ task[1].pc = "next" /\ task[1].rowCount = 2
  /\ task[1].vals[1].kind = "map[string]interface {}" /\ ~MarshalOK(task[1].vals[1].val)
  /\ Written(1)[2].fields[1] = "(int16): 7"
  /\ Written(1)[3].fields[1] = "bad data"

\* C12 (as claimed): a quit key that reaches the program before the fetches
\* were reported done (fetchesAllDone was never set) stops only the display:
\* when the process has ended, every connection had reached a terminal
\* state, and the archive holds the entry of every complete connection and
\* is closed.
C12_QuitStopsRenderingOnly ==
  (exit = "exit0" /\ ~tea.fetchesAllDone) =>
    /\ \A i \in Conns : Terminal(conns[i].state)
    /\ \A i \in Conns : conns[i].state = stateComplete => EntriesOf(i) # {}
    /\ archive.closed

\* C13 (as claimed): once the archiving goroutine is past
\* p.Send(updateModel(true, true)), no temporary file that a connection
\* created still exists, whether the connection ended complete or failed.
C13_TempFilesRemoved ==
  arch.pc \in {"sendQuit", "done"} => \A i \in Conns : ~fs[i].exists

\* C14 (as claimed): no frame is rendered from the state and status fields
\* of a connection whose goroutine may still write them.
C14_RaceFree == ~tea.racyView

\* the entry name of connection i (its URL parsed)
NameOf(i) == pgConnectionURLtoFilename(conns[i].pgConnectionURL)

\* two complete connections whose URLs give the same entry name
Collide(i, j) ==
  /\ i < j
  /\ conns[i].state = stateComplete /\ conns[j].state = stateComplete
  /\ conns[i].pgConnectionURL.ok /\ conns[j].pgConnectionURL.ok
  /\ NameOf(i) = NameOf(j)

\* the places of the entries called name
EntriesNamed(name) ==
  {n \in 1..Len(archive.entries) : archive.entries[n].name = name}

\* C15 (as claimed): when the zip is closed and two complete connections have
\* the same entry name, the archive holds one entry of that name, and it is
\* not the earlier connection's.
C15_CollisionOverwrites ==
  archive.closed =>
    \A i, j \in Conns :
      Collide(i, j) =>
        /\ Cardinality(EntriesNamed(NameOf(i))) = 1
        /\ EntriesOf(i) = {}

\* C15 (amended): when the zip is closed, every complete connection has its
\* own entry, holding the header and the rows it fetched, and the entries
\* stand in the order of the connections; so two complete connections with
\* the same entry name leave two entries of that name, the earlier
\* connection's first, and nothing is overwritten.
C15_CollisionKeepsBoth ==
  archive.closed =>
    /\ \A i \in Conns :
         conns[i].state = stateComplete =>
           /\ Cardinality(EntriesOf(i)) = 1
           /\ \A n \in EntriesOf(i) :
                /\ archive.entries[n].name = NameOf(i)
                /\ Len(archive.entries[n].data) = conns[i].status.rows + 1
    /\ \A n, m \in 1..Len(archive.entries) :
         n < m => archive.entries[n].src < archive.entries[m].src
    /\ \A i, j \in Conns :
         Collide(i, j) => Cardinality(EntriesNamed(NameOf(i))) >= 2

C15_Witness ==
  /\ archive.closed
  /\ Collide(1, 2)
  /\ Len(archive.entries) = 2
  /\ archive.entries[1].name = archive.entries[2].name
  /\ archive.entries[1].src = 1 /\ archive.entries[2].src = 2
  /\ Len(archive.entries[1].data) # Len(archive.entries[2].data)

\* the panic of line 149 (or of line 359) in the archiving goroutine has
\* ended the process
ArchivingPanic == exit = "panic" /\ \A i \in Conns : task[i].pc # "panic"

\* C16 (as claimed): after a failed copy the process has ended abnormally in
\* the middle of the loop, the zip is not closed and the program was never
\* told that archiving is done; and a connection that met an error while
\* connecting, querying or iterating its rows never ends the process.
C16_OnlyCopyFatal ==
  /\ ArchivingPanic =>
       /\ arch.pc = "loop" /\ ~archive.closed /\ ~tea.archiveAllDone
       /\ exit # "exit0"
  /\ \A i \in Conns :
       (conns[i].state = stateError \/ task[i].rows \in {"err", "valuesErr"}) =>
         task[i].pc # "panic"

\* C17: main sends updateModel(true, false) only after wg.Wait() returned and
\* starts the archiving goroutine only after that send; the archiving
\* goroutine sends updateModel(true, true) only after the entry of every
\* complete connection is written and the zip is closed; so the program's
\* model has fetchesAllDone only after the join, archiveAllDone only with a
\* closed zip, and never archiveAllDone without fetchesAllDone.
C17_SignalOrdering ==
  /\ mainPc \in {"spawn", "recv", "exit"} => wg = 0
  /\ arch.pc # "idle" => mainPc \in {"recv", "exit"}
  /\ arch.pc \in {"sendQuit", "done"} =>
       /\ archive.closed
       /\ \A i \in Conns : conns[i].state = stateComplete => EntriesOf(i) # {}
  /\ tea.fetchesAllDone => wg = 0 /\ mainPc \in {"spawn", "recv", "exit"}
  /\ tea.archiveAllDone => tea.fetchesAllDone /\ archive.closed

C17_Witness ==
  /\ tea.fetchesAllDone /\ tea.archiveAllDone
  /\ arch.pc = "done" /\ Len(archive.entries) >= 1

\* C18 (as claimed): under fairness a goroutine does not stay in pgx.Connect
\* for ever; every connection reaches a terminal state and wg.Wait() returns
\* (unless the bubbletea program could not start and the process exited with
\* status 1); and main does not get past wg.Wait() while a goroutine has not
\* finished.
C18_TaskTermination ==
  /\ \A i \in Conns :
       (task[i].pc = "connect") ~> (task[i].pc # "connect" \/ ~Running)
  /\ <>(\/ mainPc # "wait" /\ \A i \in Conns : Terminal(conns[i].state)
        \/ exit = "exit1")
  /\ [](mainPc # "wait" => \A i \in Conns : task[i].pc = "done")

\* C19 (as claimed): once every connection goroutine has finished, the
\* process is never stuck: while it runs, main, the archiving goroutine or
\* the start of the bubbletea program can take a step, whether or not the
\* user has quit.
C19_NoDeadlock ==
  (Running /\ \A i \in Conns : task[i].pc = "done") =>
    ENABLED (MainStep \/ ArchivingStep \/ TeaStart)

\* C20: a connection whose URL does not parse never becomes complete (it has
\* failed once its goroutine has finished) and never gets an entry; the
\* archiving loop derives a name only from a URL that parses; and a panic of
\* the archiving goroutine comes after zipper.Create, from the copy, never
\* from pgConnectionURLtoFilename.
C20_NamePanicUnreachable ==
  /\ \A i \in Conns :
       ~conns[i].pgConnectionURL.ok =>
         /\ conns[i].state # stateComplete /\ EntriesOf(i) = {}
         /\ task[i].pc = "done" => conns[i].state = stateError
  /\ (arch.pc = "loop" /\ arch.k <= NConns /\ Archived(conns[arch.k])) =>
       conns[arch.k].pgConnectionURL.ok
  /\ ArchivingPanic => EntriesOf(arch.k) # {}

C20_Witness ==
  /\ archive.closed
  /\ ~conns[1].pgConnectionURL.ok /\ conns[1].state = stateError
  /\ EntriesOf(1) = {} /\ EntriesOf(2) # {}

====
